---- MODULE Spec2Model ----
(***************************************************************************)
(* Model of the iso crate: the two procedural macros of src/macro          *)
(* (country_identifiers_from_table, language_identifiers_from_table) and   *)
(* the code that src/lib instantiates from them (country.rs, language.rs). *)
(*                                                                         *)
(* A Rust String is a sequence of bytes (0..255) holding valid UTF-8; the  *)
(* pools below spell their strings out byte by byte, with the text in a    *)
(* comment.                                                                *)
(***************************************************************************)
EXTENDS Integers, Sequences, FiniteSets, TLC

VARIABLES
    kind,    \* which macro / which module of the library: "country" or "language"
    file,    \* the dataset file: country records, or the lines of language.tab
    input,   \* the GenerationInput parsed from the tokens
    pc,      \* "expand" then "expanded": one macro invocation;
             \* "build" then "run" or "failed": the library module, built and used
    rows,    \* the rows vector of the macro
    out,     \* the TokenStream the macro returned (or the panic that ended it)
    crate,   \* the expansion of every macro invocation of the library module
    hist,    \* the calls made on the compiled library, oldest first
    tokens   \* the tokens of the macro invocation

vars == <<kind, file, input, pc, rows, out, crate, hist, tokens>>

(***************************************************************************)
(* Bounds of the model.                                                    *)
(***************************************************************************)
\* most records (or data lines) in a dataset file
MaxRows == 2
\* most values in a chain of library calls (the starting value included)
MaxCalls == 3

\* u16::MAX, the largest value str::parse::<u16> accepts
U16Max == 65535

(***************************************************************************)
(* Strings.                                                                *)
(***************************************************************************)
\* u8::make_ascii_uppercase on one byte
Upper(b) == IF b \in 97..122 THEN b - 32 ELSE b

\* u8::make_ascii_lowercase on one byte
Lower(b) == IF b \in 65..90 THEN b + 32 ELSE b

\* str::is_char_boundary(i), i a 0-based byte offset
IsCharBoundary(s, i) ==
    \/ i = 0
    \/ i = Len(s)
    \/ i < Len(s) /\ s[i + 1] \notin 128..191

\* ascii_formatter: get_mut(0..1) and get_mut(1..) are Some only when offset 1
\* is inside the string and on a character boundary
ascii_formatter(s) ==
    LET start == Len(s) >= 1 /\ IsCharBoundary(s, 0) /\ IsCharBoundary(s, 1)
        remainder == Len(s) >= 1 /\ IsCharBoundary(s, 1)
    IN  [i \in 1..Len(s) |->
            IF i = 1
            THEN IF start THEN Upper(s[i]) ELSE s[i]
            ELSE IF remainder THEN Lower(s[i]) ELSE s[i]]

\* Ident::new(string, span) panics unless the string is an identifier
IsIdentStart(b) == b \in 65..90 \/ b \in 97..122 \/ b = 95 \/ b >= 128
IsIdentContinue(b) == IsIdentStart(b) \/ b \in 48..57
IsValidIdent(s) ==
    /\ Len(s) >= 1
    /\ s # <<95>>
    /\ IsIdentStart(s[1])
    /\ \A i \in 2..Len(s) : IsIdentContinue(s[i])

\* String::to_lowercase: the lowercase mapping of Unicode, here for the ASCII
\* letters and the two-byte letters U+00C0..U+00DE (0xC3 0x80..0x9E, less the
\* multiplication sign 0xC3 0x97), the letters the token pools spell
to_lowercase(s) ==
    [i \in 1..Len(s) |->
        IF s[i] \in 65..90 THEN s[i] + 32
        ELSE IF i > 1 /\ s[i - 1] = 195 /\ s[i] \in (128..158) \ {151} THEN s[i] + 32
        ELSE s[i]]

\* the value of a run of decimal digits
RECURSIVE DecimalValue(_)
DecimalValue(s) ==
    IF s = <<>> THEN 0
    ELSE 10 * DecimalValue(SubSeq(s, 1, Len(s) - 1)) + (s[Len(s)] - 48)

\* deviation: a parse that wraps a value above 65535 instead of failing
ParseU16Wrapping(s) ==
    LET digits == IF Len(s) >= 1 /\ s[1] = 43 THEN Tail(s) ELSE s
    IN  IF digits = <<>> THEN -1
        ELSE IF \E i \in 1..Len(digits) : digits[i] \notin 48..57 THEN -1
        ELSE DecimalValue(digits) % (U16Max + 1)
\* codes.country_code.parse::<u16>(): -1 stands for Err(ParseIntError)
ParseU16(s) ==
    LET digits == IF Len(s) >= 1 /\ s[1] = 43 THEN Tail(s) ELSE s
    IN  IF digits = <<>> THEN -1
        ELSE IF \E i \in 1..Len(digits) : digits[i] \notin 48..57 THEN -1
        ELSE IF DecimalValue(digits) > U16Max THEN -1
        ELSE DecimalValue(digits)

\* u16::to_string
RECURSIVE ToDecimal(_)
ToDecimal(n) ==
    IF n < 10 THEN <<48 + n>>
    ELSE Append(ToDecimal(n \div 10), 48 + (n % 10))

(***************************************************************************)
(* Keys and the parsed generation request.                                 *)
(***************************************************************************)
CountryKeys == {"Alpha2", "Alpha3", "Numeric", "Name"}
LanguageKeys == {"Iso639_3", "Iso639_2b", "Iso639_2t", "Iso639_1", "Name"}

\* "" stands for None throughout (an Ident or a &'static str is never empty)
\* deviation: a numeric code that has no standard designation
CountryStandardCodeAlpha(key) ==
    CASE key = "Alpha2" -> "3166-1 alpha-2"
      [] key = "Alpha3" -> "3166-1 alpha-3"
      [] OTHER -> ""

\* CountryIdentifierKey::as_standard_code
CountryStandardCode(key) ==
    CASE key = "Alpha2" -> "3166-1 alpha-2"
      [] key = "Alpha3" -> "3166-1 alpha-3"
      [] key = "Numeric" -> "3166-1 numeric"
      [] OTHER -> ""

\* LanguageTableEntryKey::as_standard_code
LanguageStandardCode(key) ==
    CASE key = "Iso639_3" -> "639-3"
      [] key = "Iso639_2b" -> "639-2b"
      [] key = "Iso639_2t" -> "639-2t"
      [] key = "Iso639_1" -> "639-1"
      [] OTHER -> ""

\* TryInto<&'static str> for CountryIdentifierKey: "" stands for Err
CountryKeyPath(key) ==
    CASE key = "Alpha2" -> "Iso3166_1_alpha_2"
      [] key = "Alpha3" -> "Iso3166_1_alpha_3"
      [] OTHER -> ""

\* TryInto<&'static str> for LanguageTableEntryKey: "" stands for Err
LanguageKeyPath(key) ==
    CASE key = "Iso639_3" -> "Iso639_3"
      [] key = "Iso639_2b" -> "Iso639_2b"
      [] key = "Iso639_2t" -> "Iso639_2t"
      [] key = "Iso639_1" -> "Iso639_1"
      [] OTHER -> ""

\* one side of a request: (K, bool), the bool true for a string literal
NoSide == [key |-> "none", lit |-> FALSE]
Sides(keys) == [key : keys, lit : BOOLEAN]

\* struct GenerationInput, as GenerationInput::parse can return it: the `enum`
\* and `match` branches test the same first token, so at most one is taken
GenerationInputs(keys) ==
    {g \in [enumeration : {"", "E"},
            match_against : {"", "&self", "c"},
            lhs : Sides(keys),
            rhs : Sides(keys) \cup {NoSide}] :
        g.enumeration = "" \/ g.match_against = ""}

\* no GenerationInput: the tokens are not parsed, or not yet
NoInput ==
    [enumeration |-> "", match_against |-> "", lhs |-> NoSide, rhs |-> NoSide]

(***************************************************************************)
(* The tokens handed to a macro and GenerationInput::parse.                *)
(***************************************************************************)
\* bytes of the canonical key names
NameBytes == <<110, 97, 109, 101>>                               \* name
Iso639Bytes == <<105, 115, 111, 54, 51, 57, 95>>                 \* iso639_
Iso3166Bytes == <<105, 115, 111, 51, 49, 54, 54, 95, 49, 95>>    \* iso3166_1_
AlphaBytes == <<97, 108, 112, 104, 97, 95>>                      \* alpha_
NumericBytes == <<110, 117, 109, 101, 114, 105, 99>>             \* numeric

\* TryFrom<String> for LanguageTableEntryKey: "" stands for Err
LanguageKeyFromString(string) ==
    LET lower == to_lowercase(string)
    IN  CASE lower = Iso639Bytes \o <<51>> -> "Iso639_3"
          [] lower = Iso639Bytes \o <<50, 98>> -> "Iso639_2b"
          [] lower = Iso639Bytes \o <<50, 116>> -> "Iso639_2t"
          [] lower = Iso639Bytes \o <<49>> -> "Iso639_1"
          [] lower = NameBytes -> "Name"
          [] OTHER -> ""

\* deviation: a lookup that compares the name as written
CountryKeyFromStringExact(string) ==
    CASE string = Iso3166Bytes \o AlphaBytes \o <<50>> -> "Alpha2"
      [] string = Iso3166Bytes \o AlphaBytes \o <<51>> -> "Alpha3"
      [] string = Iso3166Bytes \o NumericBytes -> "Numeric"
      [] string = NameBytes -> "Name"
      [] OTHER -> ""

\* TryFrom<String> for CountryIdentifierKey: "" stands for Err
CountryKeyFromString(string) ==
    LET lower == to_lowercase(string)
    IN  CASE lower = Iso3166Bytes \o AlphaBytes \o <<50>> -> "Alpha2"
          [] lower = Iso3166Bytes \o AlphaBytes \o <<51>> -> "Alpha3"
          [] lower = Iso3166Bytes \o NumericBytes -> "Numeric"
          [] lower = NameBytes -> "Name"
          [] OTHER -> ""

KeyFromString(k, string) ==
    IF k = "country" THEN CountryKeyFromString(string) ELSE LanguageKeyFromString(string)

\* a token: its sort; for an identifier that names the enumeration or the
\* match subject, the text to_string and to_token_stream hand on; for an
\* identifier or a string literal that names a key, the bytes of the
\* identifier or of the literal's value
Tok(t) == [t |-> t, text |-> "", v |-> <<>>]
IdentTok(text, v) == [t |-> "ident", text |-> text, v |-> v]
LitStrTok(v) == [t |-> "lit", text |-> "", v |-> v]

\* the sort of the token at position i, "eof" past the end
Peek(ts, i) == IF i <= Len(ts) THEN ts[i].t ELSE "eof"

\* the result of a parse
ParseOk(g) == [status |-> "ok", input |-> g]
ParseErr == [status |-> "error", input |-> NoInput]
ParsePanic == [status |-> "panic", input |-> NoInput]

\* one side at position i: peek(Ident) / peek(LitStr), then
\* .try_into().unwrap() on its text
ParseSide(k, ts, i) ==
    IF Peek(ts, i) \notin {"ident", "lit"} THEN [status |-> "error", side |-> NoSide]
    ELSE IF KeyFromString(k, ts[i].v) = "" THEN [status |-> "panic", side |-> NoSide]
    ELSE [status |-> "ok",
          side |-> [key |-> KeyFromString(k, ts[i].v), lit |-> ts[i].t = "lit"]]

\* the sides from position i on: lhs, then `=> rhs` when `=>` follows, then
\* the end of the tokens (syn::parse rejects what is left over)
ParseSides(k, ts, i, enumeration, match_against) ==
    LET lhs == ParseSide(k, ts, i)
        rhs == ParseSide(k, ts, i + 2)
    IN  IF lhs.status = "error" THEN ParseErr
        ELSE IF lhs.status = "panic" THEN ParsePanic
        ELSE IF Peek(ts, i + 1) = "=>"
        THEN IF rhs.status = "error" THEN ParseErr
             ELSE IF rhs.status = "panic" THEN ParsePanic
             ELSE IF Peek(ts, i + 3) # "eof" THEN ParseErr
             ELSE ParseOk([enumeration |-> enumeration, match_against |-> match_against,
                           lhs |-> lhs.side, rhs |-> rhs.side])
        ELSE IF Peek(ts, i + 1) # "eof" THEN ParseErr
        ELSE ParseOk([enumeration |-> enumeration, match_against |-> match_against,
                      lhs |-> lhs.side, rhs |-> NoSide])

\* parse_macro_input!(tokens as GenerationInput<K>)
Parse(k, ts) ==
    CASE Peek(ts, 1) = "enum" ->
           IF Peek(ts, 2) = "ident" /\ Peek(ts, 3) = ":"
           THEN ParseSides(k, ts, 4, ts[2].text, "")
           ELSE ParseErr
      [] Peek(ts, 1) = "match" ->
           CASE Peek(ts, 2) = "&" ->
                  IF Peek(ts, 3) = "self" /\ Peek(ts, 4) = ":"
                  THEN ParseSides(k, ts, 5, "", "&self")
                  ELSE ParseErr
             [] Peek(ts, 2) = "ident" ->
                  IF Peek(ts, 3) = ":"
                  THEN ParseSides(k, ts, 4, "", ts[2].text)
                  ELSE ParseErr
             [] OTHER ->
                  IF Peek(ts, 2) = ":"
                  THEN ParseSides(k, ts, 3, "", "")
                  ELSE ParseErr
      [] OTHER -> ParseSides(k, ts, 1, "", "")

(***************************************************************************)
(* Tokens of an emitted row.                                               *)
(***************************************************************************)
\* Literal::string(v)
Str(v) == [t |-> "str", e |-> "", v |-> v]
\* Literal::u16_unsuffixed(n)
U16(n) == [t |-> "u16", e |-> "", v |-> <<n>>]
\* a bare identifier, #lhs
Bare(v) == [t |-> "ident", e |-> "", v |-> v]
\* #path::#ident
Path(e, v) == [t |-> "path", e |-> e, v |-> v]
\* Some(#path::#ident)
SomeOf(e, v) == [t |-> "some", e |-> e, v |-> v]
\* None
NoneTok == [t |-> "none", e |-> "", v |-> <<>>]
\* nothing: the row has no `=> rhs`
Absent == [t |-> "absent", e |-> "", v |-> <<>>]

Row(l, r) == [lhs |-> l, rhs |-> r]

\* the first panic among the fallible steps of one loop iteration, in the
\* order the code takes them ("" when none panics)
RECURSIVE FirstPanic(_)
FirstPanic(steps) ==
    IF steps = <<>> THEN ""
    ELSE IF Head(steps) # "" THEN Head(steps)
    ELSE FirstPanic(Tail(steps))

\* Ident::new(&string, Span::call_site())
IdentPanic(s) == IF IsValidIdent(s) THEN "" ELSE "not a valid Ident"

UnwrapPanic == "called Result::unwrap() on an Err or None value"
IndexPanic == "index out of bounds, or key not found"

(***************************************************************************)
(* country_identifiers_from_table                                          *)
(***************************************************************************)
\* struct CountryEntry
CountryEntry(name, alpha_2, alpha_3, country_code) ==
    [name |-> name, alpha_2 |-> alpha_2, alpha_3 |-> alpha_3,
     country_code |-> country_code]

\* parse_country_codes: Some(records) when the file opens and is a JSON array
\* of CountryEntry objects, None otherwise
parse_country_codes(f) ==
    IF f.status = "ok" THEN [some |-> TRUE, table |-> f.records]
    ELSE [some |-> FALSE, table |-> <<>>]

\* the literal of a key that stands in a literal position of a `=>` row
CountryLiteralPanic(key, codes) ==
    IF key = "Numeric" /\ ParseU16(codes.country_code) = -1
    THEN UnwrapPanic ELSE ""
CountryLiteral(key, codes) ==
    CASE key = "Alpha2" -> Str(codes.alpha_2)
      [] key = "Alpha3" -> Str(codes.alpha_3)
      [] key = "Numeric" -> U16(ParseU16(codes.country_code))
      [] OTHER -> Str(codes.name)

\* the literal of a key that stands alone (no `=>`)
CountryAlonePanic(key) ==
    CASE key = "Numeric" -> "numeric identifiers cannot be used alone"
      [] key = "Name" -> "names cannot be used alone"
      [] OTHER -> ""

\* the string of a key that stands in an identifier position
CountryIdentPanic(key) ==
    CASE key = "Numeric" -> "numeric identifiers cannot be used as an identifier"
      [] key = "Name" -> "names cannot be used as an identifier"
      [] OTHER -> ""
CountryIdentString(key, codes) ==
    CASE key = "Alpha2" -> codes.alpha_2
      [] key = "Alpha3" -> codes.alpha_3
      [] OTHER -> <<>>

\* Ident::new(key.clone().try_into().unwrap(), ..)
CountryPathPanic(key) == IF CountryKeyPath(key) = "" THEN UnwrapPanic ELSE ""

\* deviation: an identifier to identifier row whose right side is Some(..)
CountryRowOptional(codes, lhs, rhs) ==
    LET lname == ascii_formatter(CountryIdentString(lhs.key, codes))
        rname == ascii_formatter(CountryIdentString(rhs.key, codes))
    IN  [panic |-> FirstPanic(<<CountryIdentPanic(lhs.key), IdentPanic(lname),
                                CountryIdentPanic(rhs.key), IdentPanic(rname)>>),
         row |-> Row(Path(CountryKeyPath(lhs.key), lname),
                     SomeOf(CountryKeyPath(rhs.key), rname))]

\* one iteration of `for codes in country_codes`: the row pushed, or the
\* panic that ends the expansion
CountryRow(codes, lhs, rhs) ==
    LET lname == ascii_formatter(CountryIdentString(lhs.key, codes))
        rname == ascii_formatter(CountryIdentString(rhs.key, codes))
    IN  CASE lhs.lit /\ rhs = NoSide ->
               [panic |-> CountryAlonePanic(lhs.key),
                row |-> Row(Str(CountryIdentString(lhs.key, codes)), Absent)]
          [] ~lhs.lit /\ rhs = NoSide ->
               [panic |-> FirstPanic(<<CountryIdentPanic(lhs.key), IdentPanic(lname)>>),
                row |-> Row(Bare(lname), Absent)]
          [] lhs.lit /\ rhs # NoSide /\ rhs.lit ->
               [panic |-> FirstPanic(<<CountryLiteralPanic(lhs.key, codes),
                                       CountryLiteralPanic(rhs.key, codes)>>),
                row |-> Row(CountryLiteral(lhs.key, codes),
                            CountryLiteral(rhs.key, codes))]
          [] ~lhs.lit /\ rhs # NoSide /\ rhs.lit ->
               [panic |-> FirstPanic(<<CountryIdentPanic(lhs.key), IdentPanic(lname),
                                       CountryPathPanic(lhs.key),
                                       CountryLiteralPanic(rhs.key, codes)>>),
                row |-> Row(Path(CountryKeyPath(lhs.key), lname),
                            CountryLiteral(rhs.key, codes))]
          [] lhs.lit /\ rhs # NoSide /\ ~rhs.lit ->
               [panic |-> FirstPanic(<<CountryLiteralPanic(lhs.key, codes),
                                       CountryIdentPanic(rhs.key), IdentPanic(rname),
                                       CountryPathPanic(rhs.key)>>),
                row |-> Row(CountryLiteral(lhs.key, codes),
                            SomeOf(CountryKeyPath(rhs.key), rname))]
          [] OTHER ->
               [panic |-> FirstPanic(<<CountryIdentPanic(lhs.key), IdentPanic(lname),
                                       CountryPathPanic(lhs.key),
                                       CountryIdentPanic(rhs.key), IdentPanic(rname),
                                       CountryPathPanic(rhs.key)>>),
                row |-> Row(Path(CountryKeyPath(lhs.key), lname),
                            Path(CountryKeyPath(rhs.key), rname))]

\* deviation: a loop that drops a row equal to an earlier one
RECURSIVE CountryLoopDedup(_, _, _, _, _)
CountryLoopDedup(table, i, acc, lhs, rhs) ==
    IF i > Len(table) THEN [panic |-> "", rows |-> acc]
    ELSE LET r == CountryRow(table[i], lhs, rhs)
         IN  IF r.panic # "" THEN [panic |-> r.panic, rows |-> acc]
             ELSE IF \E k \in 1..Len(acc) : acc[k] = r.row
             THEN CountryLoopDedup(table, i + 1, acc, lhs, rhs)
             ELSE CountryLoopDedup(table, i + 1, Append(acc, r.row), lhs, rhs)

\* the loop `for codes in country_codes`, from record i on, acc the rows so far
RECURSIVE CountryLoop(_, _, _, _, _)
CountryLoop(table, i, acc, lhs, rhs) ==
    IF i > Len(table) THEN [panic |-> "", rows |-> acc]
    ELSE LET r == CountryRow(table[i], lhs, rhs)
         IN  IF r.panic # "" THEN [panic |-> r.panic, rows |-> acc]
             ELSE CountryLoop(table, i + 1, Append(acc, r.row), lhs, rhs)

(***************************************************************************)
(* The value a macro returns.                                              *)
(***************************************************************************)
Panicked(msg) ==
    [form |-> "panic", name |-> "", doc |-> msg, rows |-> <<>>, fallback |-> FALSE]
CompileError(msg) ==
    [form |-> "compile_error", name |-> "", doc |-> msg, rows |-> <<>>, fallback |-> FALSE]
EnumDecl(name, doc, rs) ==
    [form |-> "enum", name |-> name, doc |-> doc, rows |-> rs, fallback |-> FALSE]
MatchExpr(subject, rs, fallback) ==
    [form |-> "match", name |-> subject, doc |-> "", rows |-> rs, fallback |-> fallback]

NoStandardCountry ==
    "the selected key to generate an enumeration from does not have a corresponding iso standard"
NoStandardLanguage ==
    "the selected table column to generate an enumeration from does not have a corresponding iso standard"
NotEnoughInformation == "not enough information was provided"

\* deviation: the fallback arm decided by the right side
AssembleByRightSide(g, rs, standard, noStandard) ==
    IF g.enumeration # ""
    THEN IF standard # "" THEN EnumDecl(g.enumeration, standard, rs)
         ELSE CompileError(noStandard)
    ELSE IF g.match_against # ""
    THEN MatchExpr(g.match_against, rs, g.rhs # NoSide /\ ~g.rhs.lit)
    ELSE CompileError(NotEnoughInformation)

\* the `return TokenStream::from(..)` of both macros; standard is
\* lhs.0.as_standard_code(), noStandard the macro's compile_error! text
Assemble(g, rs, standard, noStandard) ==
    IF g.enumeration # ""
    THEN IF standard # "" THEN EnumDecl(g.enumeration, standard, rs)
         ELSE CompileError(noStandard)
    ELSE IF g.match_against # ""
    THEN MatchExpr(g.match_against, rs, g.lhs.lit)
    ELSE CompileError(NotEnoughInformation)

\* the whole macro, as a function of the dataset file and the parsed request:
\* [rows |-> the rows vector when the macro ends, out |-> what it returns]
CountryExpand(f, g) ==
    LET loaded == parse_country_codes(f)
        loop == CountryLoop(loaded.table, 1, <<>>, g.lhs, g.rhs)
    IN  IF ~loaded.some THEN [rows |-> <<>>, out |-> Panicked(UnwrapPanic)]
        ELSE IF loop.panic # "" THEN [rows |-> loop.rows, out |-> Panicked(loop.panic)]
        ELSE [rows |-> loop.rows,
              out |-> Assemble(g, loop.rows, CountryStandardCode(g.lhs.key),
                               NoStandardCountry)]

(***************************************************************************)
(* language_identifiers_from_table                                         *)
(***************************************************************************)
\* the 1-based position, in a line split on tabs, of the column a key is read from
Column(key) ==
    CASE key = "Iso639_3" -> 1
      [] key = "Iso639_2b" -> 2
      [] key = "Iso639_2t" -> 3
      [] key = "Iso639_1" -> 4
      [] OTHER -> 7

\* the characters of a string: the bytes that do not continue a character
Chars(s) == Cardinality({i \in 1..Len(s) : s[i] \notin 128..191})

\* deviation: columns measured in characters
LanguageEntryChars(cols) ==
    LET present == {"Iso639_3", "Name"}
                   \cup (IF Chars(cols[2]) = 3 THEN {"Iso639_2b"} ELSE {})
                   \cup (IF Chars(cols[3]) = 3 THEN {"Iso639_2t"} ELSE {})
                   \cup (IF Chars(cols[4]) = 2 THEN {"Iso639_1"} ELSE {})
    IN  [k \in present |-> cols[Column(k)]]

\* the HashMap built from one line: String::len counts bytes
LanguageEntry(cols) ==
    LET present == {"Iso639_3", "Name"}
                   \cup (IF Len(cols[2]) = 3 THEN {"Iso639_2b"} ELSE {})
                   \cup (IF Len(cols[3]) = 3 THEN {"Iso639_2t"} ELSE {})
                   \cup (IF Len(cols[4]) = 2 THEN {"Iso639_1"} ELSE {})
    IN  [k \in present |-> cols[Column(k)]]

\* the lines after the first that were read without an I/O error
RECURSIVE ReadableLines(_)
ReadableLines(lines) ==
    IF lines = <<>> THEN <<>>
    ELSE IF Head(lines).io = "ok" THEN <<Head(lines)>> \o ReadableLines(Tail(lines))
    ELSE ReadableLines(Tail(lines))

\* parse_language_table: None when the file does not open; a panic when a
\* line has fewer than 7 columns (line[6]); else one entry per line read
parse_language_table(f) ==
    LET data == IF f.lines = <<>> THEN <<>> ELSE ReadableLines(Tail(f.lines))
    IN  IF f.status # "ok" THEN [some |-> FALSE, panic |-> "", table |-> <<>>]
        ELSE IF \E i \in 1..Len(data) : Len(data[i].cols) < 7
        THEN [some |-> FALSE, panic |-> IndexPanic, table |-> <<>>]
        ELSE [some |-> TRUE, panic |-> "",
              table |-> [i \in 1..Len(data) |-> LanguageEntry(data[i].cols)]]

\* table_entry.get(key).is_some()
Has(entry, key) == key \in DOMAIN entry

\* table_entry[key]: panics when the key is absent
EntryPanic(entry, key) == IF Has(entry, key) THEN "" ELSE IndexPanic
EntryValue(entry, key) == IF Has(entry, key) THEN entry[key] ELSE <<>>

\* Ident::new(key.clone().try_into().unwrap(), ..)
LanguagePathPanic(key) == IF LanguageKeyPath(key) = "" THEN UnwrapPanic ELSE ""

\* the right side of a row whose right key is an identifier:
\* if let Some(rhs) = table_entry.get(rhs_table) { Some(path::ident) } else { None }
LanguageOptionPanic(entry, key) ==
    IF Has(entry, key)
    THEN FirstPanic(<<IdentPanic(ascii_formatter(entry[key])), LanguagePathPanic(key)>>)
    ELSE ""
\* deviation: an optional right side that keeps the raw value
LanguageOptionRaw(entry, key) ==
    IF Has(entry, key) THEN SomeOf(LanguageKeyPath(key), entry[key]) ELSE NoneTok
LanguageOption(entry, key) ==
    IF Has(entry, key)
    THEN SomeOf(LanguageKeyPath(key), ascii_formatter(entry[key]))
    ELSE NoneTok

\* deviation: a lone identifier row that keeps the value as the table has it
LanguageRowRawVariant(entry, lhs, rhs) ==
    LET lname == ascii_formatter(EntryValue(entry, lhs.key))
    IN  CASE lhs.lit /\ rhs = NoSide ->
               [panic |-> EntryPanic(entry, lhs.key),
                row |-> Row(Str(EntryValue(entry, lhs.key)), Absent)]
          [] ~lhs.lit /\ rhs = NoSide ->
               [panic |-> FirstPanic(<<EntryPanic(entry, lhs.key), IdentPanic(lname)>>),
                row |-> Row(Bare(EntryValue(entry, lhs.key)), Absent)]
          [] lhs.lit /\ rhs # NoSide /\ rhs.lit ->
               [panic |-> FirstPanic(<<EntryPanic(entry, lhs.key),
                                       EntryPanic(entry, rhs.key)>>),
                row |-> Row(Str(EntryValue(entry, lhs.key)),
                            Str(EntryValue(entry, rhs.key)))]
          [] ~lhs.lit /\ rhs # NoSide /\ rhs.lit ->
               [panic |-> FirstPanic(<<EntryPanic(entry, lhs.key), IdentPanic(lname),
                                       LanguagePathPanic(lhs.key),
                                       EntryPanic(entry, rhs.key)>>),
                row |-> Row(Path(LanguageKeyPath(lhs.key), lname),
                            Str(EntryValue(entry, rhs.key)))]
          [] lhs.lit /\ rhs # NoSide /\ ~rhs.lit ->
               [panic |-> FirstPanic(<<EntryPanic(entry, lhs.key),
                                       LanguageOptionPanic(entry, rhs.key)>>),
                row |-> Row(Str(EntryValue(entry, lhs.key)),
                            LanguageOption(entry, rhs.key))]
          [] OTHER ->
               [panic |-> FirstPanic(<<EntryPanic(entry, lhs.key), IdentPanic(lname),
                                       LanguagePathPanic(lhs.key),
                                       LanguageOptionPanic(entry, rhs.key)>>),
                row |-> Row(Path(LanguageKeyPath(lhs.key), lname),
                            LanguageOption(entry, rhs.key))]
\* one iteration of `for table_entry in table` for an entry that holds lhs.0
LanguageRow(entry, lhs, rhs) ==
    LET lname == ascii_formatter(EntryValue(entry, lhs.key))
    IN  CASE lhs.lit /\ rhs = NoSide ->
               [panic |-> EntryPanic(entry, lhs.key),
                row |-> Row(Str(EntryValue(entry, lhs.key)), Absent)]
          [] ~lhs.lit /\ rhs = NoSide ->
               [panic |-> FirstPanic(<<EntryPanic(entry, lhs.key), IdentPanic(lname)>>),
                row |-> Row(Bare(lname), Absent)]
          [] lhs.lit /\ rhs # NoSide /\ rhs.lit ->
               [panic |-> FirstPanic(<<EntryPanic(entry, lhs.key),
                                       EntryPanic(entry, rhs.key)>>),
                row |-> Row(Str(EntryValue(entry, lhs.key)),
                            Str(EntryValue(entry, rhs.key)))]
          [] ~lhs.lit /\ rhs # NoSide /\ rhs.lit ->
               [panic |-> FirstPanic(<<EntryPanic(entry, lhs.key), IdentPanic(lname),
                                       LanguagePathPanic(lhs.key),
                                       EntryPanic(entry, rhs.key)>>),
                row |-> Row(Path(LanguageKeyPath(lhs.key), lname),
                            Str(EntryValue(entry, rhs.key)))]
          [] lhs.lit /\ rhs # NoSide /\ ~rhs.lit ->
               [panic |-> FirstPanic(<<EntryPanic(entry, lhs.key),
                                       LanguageOptionPanic(entry, rhs.key)>>),
                row |-> Row(Str(EntryValue(entry, lhs.key)),
                            LanguageOption(entry, rhs.key))]
          [] OTHER ->
               [panic |-> FirstPanic(<<EntryPanic(entry, lhs.key), IdentPanic(lname),
                                       LanguagePathPanic(lhs.key),
                                       LanguageOptionPanic(entry, rhs.key)>>),
                row |-> Row(Path(LanguageKeyPath(lhs.key), lname),
                            LanguageOption(entry, rhs.key))]

\* if table_entry.get(&lhs.0).is_none() { continue; }
Skipped(entry, lhs) == ~Has(entry, lhs.key)

\* deviation: a loop that ends at the first record lacking the left key
RECURSIVE LanguageLoopBreak(_, _, _, _, _)
LanguageLoopBreak(table, i, acc, lhs, rhs) ==
    IF i > Len(table) THEN [panic |-> "", rows |-> acc]
    ELSE IF Skipped(table[i], lhs) THEN [panic |-> "", rows |-> acc]
    ELSE LET r == LanguageRow(table[i], lhs, rhs)
         IN  IF r.panic # "" THEN [panic |-> r.panic, rows |-> acc]
             ELSE LanguageLoopBreak(table, i + 1, Append(acc, r.row), lhs, rhs)

\* the loop `for table_entry in table`, from entry i on, acc the rows so far
RECURSIVE LanguageLoop(_, _, _, _, _)
LanguageLoop(table, i, acc, lhs, rhs) ==
    IF i > Len(table) THEN [panic |-> "", rows |-> acc]
    ELSE IF Skipped(table[i], lhs) THEN LanguageLoop(table, i + 1, acc, lhs, rhs)
    ELSE LET r == LanguageRow(table[i], lhs, rhs)
         IN  IF r.panic # "" THEN [panic |-> r.panic, rows |-> acc]
             ELSE LanguageLoop(table, i + 1, Append(acc, r.row), lhs, rhs)

\* the whole macro, as a function of the dataset file and the parsed request
LanguageExpand(f, g) ==
    LET loaded == parse_language_table(f)
        loop == LanguageLoop(loaded.table, 1, <<>>, g.lhs, g.rhs)
    IN  IF loaded.panic # "" THEN [rows |-> <<>>, out |-> Panicked(loaded.panic)]
        ELSE IF ~loaded.some THEN [rows |-> <<>>, out |-> Panicked(UnwrapPanic)]
        ELSE IF loop.panic # "" THEN [rows |-> loop.rows, out |-> Panicked(loop.panic)]
        ELSE [rows |-> loop.rows,
              out |-> Assemble(g, loop.rows, LanguageStandardCode(g.lhs.key),
                               NoStandardLanguage)]


(***************************************************************************)
(* The macros, from the tokens of the invocation.                          *)
(***************************************************************************)
\* what parse_macro_input! returns on Err: the error as compile_error!
SyntaxError == "syn::Error"
\* the panic of .try_into().unwrap() on a key name
NoMatchingVariant ==
    "called Result::unwrap() on an Err value: unable to find a matching variant"

\* country_identifiers_from_table(tokens): the dataset is loaded and
\* unwrapped, then the tokens are parsed, then the rows are built
CountryMacro(f, ts) ==
    LET loaded == parse_country_codes(f)
        p == Parse("country", ts)
    IN  IF ~loaded.some
        THEN [input |-> NoInput, rows |-> <<>>, out |-> Panicked(UnwrapPanic)]
        ELSE IF p.status = "error"
        THEN [input |-> NoInput, rows |-> <<>>, out |-> CompileError(SyntaxError)]
        ELSE IF p.status = "panic"
        THEN [input |-> NoInput, rows |-> <<>>, out |-> Panicked(NoMatchingVariant)]
        ELSE [input |-> p.input] @@ CountryExpand(f, p.input)

\* language_identifiers_from_table(tokens)
LanguageMacro(f, ts) ==
    LET loaded == parse_language_table(f)
        p == Parse("language", ts)
    IN  IF loaded.panic # ""
        THEN [input |-> NoInput, rows |-> <<>>, out |-> Panicked(loaded.panic)]
        ELSE IF ~loaded.some
        THEN [input |-> NoInput, rows |-> <<>>, out |-> Panicked(UnwrapPanic)]
        ELSE IF p.status = "error"
        THEN [input |-> NoInput, rows |-> <<>>, out |-> CompileError(SyntaxError)]
        ELSE IF p.status = "panic"
        THEN [input |-> NoInput, rows |-> <<>>, out |-> Panicked(NoMatchingVariant)]
        ELSE [input |-> p.input] @@ LanguageExpand(f, p.input)

(***************************************************************************)
(* The library: what country.rs and language.rs instantiate.               *)
(***************************************************************************)
EnumInput(enumeration, key) ==
    [enumeration |-> enumeration, match_against |-> "",
     lhs |-> [key |-> key, lit |-> FALSE], rhs |-> NoSide]
MatchInput(subject, lkey, llit, rkey, rlit) ==
    [enumeration |-> "", match_against |-> subject,
     lhs |-> [key |-> lkey, lit |-> llit], rhs |-> [key |-> rkey, lit |-> rlit]]

\* the enumerations each module declares, by the key they are generated from
CountryEnums == {"Alpha2", "Alpha3"}
LanguageEnums == {"Iso639_1", "Iso639_2b", "Iso639_2t", "Iso639_3"}
Enums(k) == IF k = "country" THEN CountryEnums ELSE LanguageEnums
KeyPath(k, key) == IF k = "country" THEN CountryKeyPath(key) ELSE LanguageKeyPath(key)
Expand(k, f, g) == IF k = "country" THEN CountryExpand(f, g) ELSE LanguageExpand(f, g)

\* the macro invocations of a module, each named <<item, enumeration, target>>
Invocations(k) ==
    {<<fn, key, "">> : fn \in {"enum", "name", "code", "from_str"}, key \in Enums(k)}
    \cup {<<"convert", p[1], p[2]>> : p \in {q \in Enums(k) \X Enums(k) : q[1] # q[2]}}
    \cup (IF k = "country"
          THEN {<<fn, key, "">> : fn \in {"numeric", "try_from_u16"}, key \in CountryEnums}
          ELSE {})

\* the tokens of each invocation, parsed
InvocationInput(k, id) ==
    CASE id[1] = "enum" ->
           \* country_identifiers_from_table!(enum Iso3166_1_alpha_2: iso3166_1_alpha_2)
           EnumInput(KeyPath(k, id[2]), id[2])
      [] id[1] = "name" ->
           \* match &self: $enum => "name"
           MatchInput("&self", id[2], FALSE, "Name", TRUE)
      [] id[1] = "numeric" ->
           \* match &self: $country => "Iso3166_1_numeric"
           MatchInput("&self", id[2], FALSE, "Numeric", TRUE)
      [] id[1] = "code" ->
           \* match &self: $enum => $enum_as_string
           MatchInput("&self", id[2], FALSE, id[2], TRUE)
      [] id[1] = "try_from_u16" ->
           \* match c: "Iso3166_1_numeric" => $country
           MatchInput("c", "Numeric", TRUE, id[2], FALSE)
      [] id[1] = "from_str" ->
           \* match s: $enum_as_string => $enum
           MatchInput("s", id[2], TRUE, id[2], FALSE)
      [] OTHER ->
           \* match c: $from => $to
           MatchInput("c", id[2], FALSE, id[3], FALSE)

CountryInputs == [id \in Invocations("country") |-> InvocationInput("country", id)]
LanguageInputs == [id \in Invocations("language") |-> InvocationInput("language", id)]
Inputs(k) == IF k = "country" THEN CountryInputs ELSE LanguageInputs

\* the variants an expanded module declares for an enumeration, in order
Variants(k, c, key) ==
    [i \in 1..Len(c[<<"enum", key, "">>].rows) |->
        Path(KeyPath(k, key), c[<<"enum", key, "">>].rows[i].lhs.v)]

\* rustc accepts the expanded module: every expansion returned an enumeration
\* or a match (a panic or compile_error! fails the build), every match has an
\* arm before its first `,` and no enumeration declares a variant twice
Compiles(k, c) ==
    /\ \A id \in DOMAIN c : c[id].form \in {"enum", "match"} /\ c[id].rows # <<>>
    /\ \A key \in Enums(k) :
          \A i, j \in 1..Len(Variants(k, c, key)) :
              Variants(k, c, key)[i] = Variants(k, c, key)[j] => i = j

\* a generated match at run time: the first arm whose pattern equals the
\* scrutinee decides, then the `_ => None` arm
RECURSIVE FirstArm(_, _, _)
FirstArm(rs, i, scrutinee) ==
    IF i > Len(rs) THEN 0
    ELSE IF rs[i].lhs = scrutinee THEN i
    ELSE FirstArm(rs, i + 1, scrutinee)
\* no arm and no fallback: rustc rejects such a match unless it is exhaustive
NoArm == [t |-> "no arm", e |-> "", v |-> <<>>]
\* deviation: a match decided by its last matching arm
RECURSIVE LastArm(_, _, _)
LastArm(rs, i, scrutinee) ==
    IF i = 0 THEN 0
    ELSE IF rs[i].lhs = scrutinee THEN i
    ELSE LastArm(rs, i - 1, scrutinee)
EvalLast(m, scrutinee) ==
    IF LastArm(m.rows, Len(m.rows), scrutinee) # 0
    THEN m.rows[LastArm(m.rows, Len(m.rows), scrutinee)].rhs
    ELSE IF m.fallback THEN NoneTok
    ELSE NoArm
Eval(m, scrutinee) ==
    IF FirstArm(m.rows, 1, scrutinee) # 0
    THEN m.rows[FirstArm(m.rows, 1, scrutinee)].rhs
    ELSE IF m.fallback THEN NoneTok
    ELSE NoArm

\* values at run time
Ok(variant) == [t |-> "ok", e |-> variant.e, v |-> variant.v]
Err(error, payload) == [t |-> "err", e |-> error, v |-> payload]
\* deviation: an error that drops its payload
OkOrEmpty(option, error, payload) ==
    IF option.t = "some" THEN Ok(option) ELSE Err(error, <<>>)
\* Option::ok_or
OkOr(option, error, payload) ==
    IF option.t = "some" THEN Ok(option) ELSE Err(error, payload)
InvalidCode(k) == IF k = "country" THEN "InvalidCountryCode" ELSE "InvalidLanguageCode"
\* the key an enumeration was generated from
EnumKey(k, e) == CHOOSE key \in Enums(k) : KeyPath(k, key) = e

\* $enum::name
name(c, k, variant) == Eval(c[<<"name", EnumKey(k, variant.e), "">>], variant)
\* deviation: code() answering with the name of the variant
variant_name(c, k, variant) == Str(variant.v)
\* $enum::code
code(c, k, variant) == Eval(c[<<"code", EnumKey(k, variant.e), "">>], variant)
\* $country::numeric
numeric(c, variant) == Eval(c[<<"numeric", EnumKey("country", variant.e), "">>], variant)
\* <$country as TryFrom<u16>>::try_from
try_from_u16(c, to, n) ==
    OkOr(Eval(c[<<"try_from_u16", to, "">>], n), "InvalidCountryCode", ToDecimal(n.v[1]))
\* deviation: a parser that normalizes its input before matching
from_str_formatted(c, k, to, s) ==
    OkOr(Eval(c[<<"from_str", to, "">>], Str(ascii_formatter(s.v))), InvalidCode(k), s.v)
\* <$enum as FromStr>::from_str
from_str(c, k, to, s) == OkOr(Eval(c[<<"from_str", to, "">>], s), InvalidCode(k), s.v)
\* <$to as From<$from>>::from
from(c, to, x) == Eval(c[<<"convert", EnumKey("country", x.e), to>>], x)
\* <$to as TryFrom<$from>>::try_from
try_from(c, to, x) ==
    OkOr(Eval(c[<<"convert", EnumKey("language", x.e), to>>], x),
         "NoCorrespondingLanguageCode", code(c, "language", x).v)

(***************************************************************************)
(* The inputs the model draws from.                                        *)
(***************************************************************************)
SeqsUpTo(S, n) == UNION {[1..k -> S] : k \in 0..n}

\* records of country.json
CountryPool ==
    { \* "N1", "US", "USA", "840"
      CountryEntry(<<78, 49>>, <<85, 83>>, <<85, 83, 65>>, <<56, 52, 48>>),
      \* "N2", "FR", "FRA", "250"
      CountryEntry(<<78, 50>>, <<70, 82>>, <<70, 82, 65>>, <<50, 53, 48>>),
      \* "N3", "uS", "UsA", "36": the codes of the first record in another case
      CountryEntry(<<78, 51>>, <<117, 83>>, <<85, 115, 65>>, <<51, 54>>),
      \* "N4", "DE", "DEU", "0840": the number of the first record again
      CountryEntry(<<78, 52>>, <<68, 69>>, <<68, 69, 85>>, <<48, 56, 52, 48>>),
      \* "N5", "", "XYZ", "4": an empty alpha-2 code
      CountryEntry(<<78, 53>>, <<>>, <<88, 89, 90>>, <<52>>),
      \* "N6", "GB", "GBR", "65536": a number that does not fit a u16
      CountryEntry(<<78, 54>>, <<71, 66>>, <<71, 66, 82>>, <<54, 53, 53, 51, 54>>),
      \* "N7", "IT", "ITA", "-1": a number below zero
      CountryEntry(<<78, 55>>, <<73, 84>>, <<73, 84, 65>>, <<45, 49>>) }

CountryFiles ==
    {[status |-> st, records |-> <<>>] : st \in {"missing", "malformed"}}
    \cup {[status |-> "ok", records |-> t] : t \in SeqsUpTo(CountryPool, MaxRows)}

Line(cols) == [io |-> "ok", cols |-> cols]

\* the first line of language.tab
HeaderLine ==
    Line(<<<<73, 100>>, <<80, 50, 66>>, <<80, 50, 84>>, <<80, 49>>,
           <<83>>, <<84>>, <<78>>>>)

\* data lines of language.tab, split on tabs
LanguagePool ==
    { \* eng eng eng en . . En
      Line(<<<<101, 110, 103>>, <<101, 110, 103>>, <<101, 110, 103>>, <<101, 110>>,
             <<>>, <<>>, <<69, 110>>>>),
      \* fra fre fra fr I L Fr x: an eighth column
      Line(<<<<102, 114, 97>>, <<102, 114, 101>>, <<102, 114, 97>>, <<102, 114>>,
             <<73>>, <<76>>, <<70, 114>>, <<120>>>>),
      \* aaa . . . . . Aa: a language with a 639-3 code only
      Line(<<<<97, 97, 97>>, <<>>, <<>>, <<>>, <<>>, <<>>, <<65, 97>>>>),
      \* Eng . . EN . . E1: codes of the first line in another case
      Line(<<<<69, 110, 103>>, <<>>, <<>>, <<69, 78>>, <<>>, <<>>, <<69, 49>>>>),
      \* abc abc: a line of two columns
      Line(<<<<97, 98, 99>>, <<97, 98, 99>>>>),
      \* (empty) e-acute,A . . . . "a b": three bytes in two characters
      Line(<<<<>>, <<195, 169, 65>>, <<>>, <<>>, <<>>, <<>>, <<97, 32, 98>>>>),
      \* a line that BufRead::lines fails to read (not UTF-8)
      [io |-> "error", cols |-> <<>>] }

LanguageFiles ==
    {[status |-> "missing", lines |-> <<>>], [status |-> "ok", lines |-> <<>>]}
    \cup {[status |-> "ok", lines |-> <<HeaderLine>> \o t] :
            t \in SeqsUpTo(LanguagePool, MaxRows)}

Files(k) == IF k = "country" THEN CountryFiles ELSE LanguageFiles
Keys(k) == IF k = "country" THEN CountryKeys ELSE LanguageKeys

\* the canonical spelling of a key
Canonical(k, key) ==
    CASE key = "Name" -> NameBytes
      [] key = "Alpha2" -> Iso3166Bytes \o AlphaBytes \o <<50>>
      [] key = "Alpha3" -> Iso3166Bytes \o AlphaBytes \o <<51>>
      [] key = "Numeric" -> Iso3166Bytes \o NumericBytes
      [] key = "Iso639_3" -> Iso639Bytes \o <<51>>
      [] key = "Iso639_2b" -> Iso639Bytes \o <<50, 98>>
      [] key = "Iso639_2t" -> Iso639Bytes \o <<50, 116>>
      [] OTHER -> Iso639Bytes \o <<49>>

\* the tokens that parse to a GenerationInput, keys spelled canonically
SideTokens(k, side) ==
    IF side.lit THEN LitStrTok(Canonical(k, side.key))
    ELSE IdentTok("", Canonical(k, side.key))
Unparse(k, g) ==
    (CASE g.enumeration # "" -> <<Tok("enum"), IdentTok(g.enumeration, <<>>), Tok(":")>>
       [] g.match_against = "&self" -> <<Tok("match"), Tok("&"), Tok("self"), Tok(":")>>
       [] g.match_against # "" -> <<Tok("match"), IdentTok(g.match_against, <<>>), Tok(":")>>
       [] OTHER -> <<>>)
    \o <<SideTokens(k, g.lhs)>>
    \o (IF g.rhs = NoSide THEN <<>> ELSE <<Tok("=>"), SideTokens(k, g.rhs)>>)

\* other spellings of a key name: NAME, Name, nam, names, "name" with a
\* capital e-acute for its last letter, the empty string, and every canonical
\* name with its first letter a capital, as country.rs and language.rs write it
Spellings(k) ==
    {<<78, 65, 77, 69>>, <<78, 97, 109, 101>>, <<110, 97, 109>>,
     <<110, 97, 109, 101, 115>>, <<110, 97, 109, 195, 137>>, <<>>}
    \cup {[Canonical(k, key) EXCEPT ![1] = 73] : key \in Keys(k) \ {"Name"}}

\* token sequences outside the ones above: other spellings, a match without
\* a subject, and sequences that are cut short, run on or lack a token
OtherTokens(k) ==
    LET a == IdentTok("", Canonical(k, "Name"))
        b == LitStrTok(Canonical(k, "Name"))
        E == IdentTok("E", <<>>)
        c == IdentTok("c", <<>>)
    IN  { <<>>,
          <<Tok("match"), Tok(":"), a>>,
          <<Tok("match"), Tok(":"), b, Tok("=>"), b>>,
          <<Tok("enum"), E, Tok(":"), a, a>>,
          <<Tok("match"), c, Tok(":"), b, Tok("=>"), b, Tok(",")>>,
          <<b, b>>,
          <<Tok("enum"), E, a>>,
          <<Tok("enum"), Tok(":"), a>>,
          <<Tok("match"), Tok("self"), Tok(":"), a>>,
          <<Tok("match"), Tok("&"), c, Tok(":"), a>>,
          <<Tok("enum"), E, Tok(":")>>,
          <<Tok("match"), c, Tok(":"), a, Tok("=>")>>,
          <<Tok(":"), a>>,
          <<Tok("enum"), E, IdentTok("", <<110, 97, 109>>)>>,
          <<Tok("enum"), E, Tok(":"), IdentTok("", <<110, 97, 109>>), Tok("=>")>> }
        \cup {<<Tok("enum"), E, Tok(":"), IdentTok("", sp)>> : sp \in Spellings(k)}
        \cup {<<Tok("match"), c, Tok(":"), LitStrTok(sp), Tok("=>"), b>> : sp \in Spellings(k)}
        \cup {<<Tok("match"), Tok("&"), Tok("self"), Tok(":"), a, Tok("=>"), LitStrTok(sp)>> :
                 sp \in Spellings(k)}

TokenStreams(k) == {Unparse(k, g) : g \in GenerationInputs(Keys(k))} \cup OtherTokens(k)

\* strings handed to from_str: every code of the pools, raw and normalized, and "ZZ"
InputStrings ==
    LET raw == {r.alpha_2 : r \in CountryPool} \cup {r.alpha_3 : r \in CountryPool}
               \cup UNION {{l.cols[i] : i \in 1..Len(l.cols)} : l \in LanguagePool}
    IN  raw \cup {ascii_formatter(s) : s \in raw} \cup {<<90, 90>>}

\* numbers handed to try_from
InputNumbers == {0, 4, 36, 250, 840, 841, U16Max}

NoOutput ==
    [form |-> "none", name |-> "", doc |-> "", rows |-> <<>>, fallback |-> FALSE]
NoCrate == [id \in {} |-> NoOutput]

(***************************************************************************)
(* The state machine: one macro invocation on a dataset, or the library    *)
(* module built on a dataset and then used.                                *)
(***************************************************************************)
Init ==
    /\ kind \in {"country", "language"}
    /\ file \in Files(kind)
    /\ \/ pc = "expand" /\ tokens \in TokenStreams(kind)
       \/ pc = "build" /\ tokens = <<>>
    /\ input = NoInput
    /\ rows = <<>>
    /\ out = NoOutput
    /\ crate = NoCrate
    /\ hist = <<>>

country_identifiers_from_table ==
    /\ pc = "expand"
    /\ kind = "country"
    /\ \E m \in {CountryMacro(file, tokens)} :
          input' = m.input /\ rows' = m.rows /\ out' = m.out
    /\ pc' = "expanded"
    /\ UNCHANGED <<kind, file, crate, hist, tokens>>

language_identifiers_from_table ==
    /\ pc = "expand"
    /\ kind = "language"
    /\ \E m \in {LanguageMacro(file, tokens)} :
          input' = m.input /\ rows' = m.rows /\ out' = m.out
    /\ pc' = "expanded"
    /\ UNCHANGED <<kind, file, crate, hist, tokens>>

\* the library module is compiled: every invocation in it is expanded
Build ==
    /\ pc = "build"
    /\ crate' = [id \in Invocations(kind) |-> Expand(kind, file, Inputs(kind)[id]).out]
    /\ pc' = IF Compiles(kind, crate') THEN "run" ELSE "failed"
    /\ UNCHANGED <<kind, file, input, rows, out, hist, tokens>>

Last(h) == h[Len(h)]
Call(op, to, val) == [op |-> op, to |-> to, val |-> val]
Calling(t) == pc = "run" /\ hist # <<>> /\ Len(hist) < MaxCalls /\ Last(hist).val.t = t
Then(c) ==
    hist' = Append(hist, c) /\ UNCHANGED <<kind, file, input, pc, rows, out, crate, tokens>>

\* every variant the module declares
AllVariants ==
    UNION {{Variants(kind, crate, key)[i] : i \in 1..Len(Variants(kind, crate, key))} :
             key \in Enums(kind)}

\* the program names a variant, a string or a number
Let ==
    /\ pc = "run"
    /\ hist = <<>>
    /\ \E v \in AllVariants \cup {Str(s) : s \in InputStrings}
                \cup {U16(n) : n \in InputNumbers} :
          Then(Call("let", "", v))

CallName ==
    /\ Calling("path")
    /\ Then(Call("name", "", name(crate, kind, Last(hist).val)))

CallCode ==
    /\ Calling("path")
    /\ Then(Call("code", "", code(crate, kind, Last(hist).val)))

CallNumeric ==
    /\ Calling("path")
    /\ kind = "country"
    /\ Then(Call("numeric", "", numeric(crate, Last(hist).val)))

CallFrom ==
    /\ Calling("path")
    /\ kind = "country"
    /\ \E to \in CountryEnums \ {EnumKey(kind, Last(hist).val.e)} :
          Then(Call("from", to, from(crate, to, Last(hist).val)))

CallTryFrom ==
    /\ Calling("path")
    /\ kind = "language"
    /\ \E to \in LanguageEnums \ {EnumKey(kind, Last(hist).val.e)} :
          Then(Call("try_from", to, try_from(crate, to, Last(hist).val)))

CallTryFromU16 ==
    /\ Calling("u16")
    /\ kind = "country"
    /\ \E to \in CountryEnums :
          Then(Call("try_from_u16", to, try_from_u16(crate, to, Last(hist).val)))

CallFromStr ==
    /\ Calling("str")
    /\ \E to \in Enums(kind) :
          Then(Call("from_str", to, from_str(crate, kind, to, Last(hist).val)))

Next ==
    \/ country_identifiers_from_table
    \/ language_identifiers_from_table
    \/ Build
    \/ Let
    \/ CallName
    \/ CallCode
    \/ CallNumeric
    \/ CallFrom
    \/ CallTryFrom
    \/ CallTryFromU16
    \/ CallFromStr

Spec == Init /\ [][Next]_vars

TypeOK ==
    /\ pc \in {"expand", "expanded", "build", "run", "failed"}
    /\ Len(hist) <= MaxCalls

(***************************************************************************)
(* Vocabulary of the properties.                                           *)
(***************************************************************************)
\* the records the loader hands to the row loop
Records ==
    IF kind = "country" THEN parse_country_codes(file).table
    ELSE parse_language_table(file).table

\* a record holds a value under a key; the value
Held(r, key) == kind = "country" \/ key \in DOMAIN r
Field(r, key) ==
    IF kind = "language" THEN r[key]
    ELSE CASE key = "Alpha2" -> r.alpha_2
           [] key = "Alpha3" -> r.alpha_3
           [] key = "Numeric" -> r.country_code
           [] OTHER -> r.name

\* the records that hold a value under a key, in dataset order
Holders(key) == SelectSeq(Records, LAMBDA r : Held(r, key))

\* the variant name generated from a record for the enumeration of a key
VariantOf(r, key) == Path(KeyPath(kind, key), ascii_formatter(Field(r, key)))

IdentToIdent == ~input.lhs.lit /\ input.rhs # NoSide /\ ~input.rhs.lit
Expanded(form) == pc = "expanded" /\ out.form = form

(***************************************************************************)
(* C1: a language identifier-to-identifier match from K1 to K2 has exactly *)
(* one arm per record holding K1, in order: K1::norm(v1) => Some(K2::      *)
(* norm(v2)) when the record holds K2, K1::norm(v1) => None when it does   *)
(* not. So converting a K1 variant to K2 succeeds exactly when its record  *)
(* holds K2, and yields that record's K2 variant.                          *)
(***************************************************************************)
C1_Arms ==
    (Expanded("match") /\ kind = "language" /\ IdentToIdent) =>
        LET hs == Holders(input.lhs.key)
        IN  /\ out.rows = rows
            /\ Len(rows) = Len(hs)
            /\ \A i \in 1..Len(hs) :
                 rows[i] = Row(VariantOf(hs[i], input.lhs.key),
                               IF Held(hs[i], input.rhs.key)
                               THEN SomeOf(LanguageKeyPath(input.rhs.key),
                                           ascii_formatter(hs[i][input.rhs.key]))
                               ELSE NoneTok)

C1_Conversion ==
    (pc = "run" /\ kind = "language") =>
        \A j \in 2..Len(hist) :
            hist[j].op = "try_from" =>
                \A i \in 1..Len(Records) :
                    LET r == Records[i]
                        K1 == EnumKey(kind, hist[j - 1].val.e)
                    IN  (Held(r, K1) /\ VariantOf(r, K1) = hist[j - 1].val) =>
                            hist[j].val =
                                IF Held(r, hist[j].to)
                                THEN Ok(VariantOf(r, hist[j].to))
                                ELSE Err("NoCorrespondingLanguageCode", r[K1])

\* C1: an identifier to identifier language request gives the arms and the
\* conversion described above
C1_IdentToIdent == C1_Arms /\ C1_Conversion

\* a match whose arms hold both a Some and a None
C1_Witness ==
    /\ Expanded("match") /\ kind = "language" /\ IdentToIdent
    /\ \E i, j \in 1..Len(rows) : rows[i].rhs.t = "some" /\ rows[j].rhs.t = "none"

\* En converts to Eng; a variant whose record lacks the target fails
C1_WitnessConverted ==
    /\ pc = "run" /\ kind = "language" /\ Len(hist) = 2
    /\ hist[1].val = Path("Iso639_1", <<69, 110>>)
    /\ hist[2] = Call("try_from", "Iso639_2b", Ok(Path("Iso639_2b", <<69, 110, 103>>)))
C1_WitnessNoCode ==
    /\ pc = "run" /\ kind = "language" /\ Len(hist) = 2
    /\ hist[2].op = "try_from" /\ hist[2].val.t = "err"

(***************************************************************************)
(* C2 as claimed: a match is partial (every arm optional, a `_ => None`    *)
(* arm appended) exactly when its right side is an identifier whose key    *)
(* some record can lack, a language key other than Iso639_3 and Name; any  *)
(* other match has no fallback arm. (Stated of the matches that have a     *)
(* right side and at least one arm.)                                       *)
(***************************************************************************)
OptionalArms == \A i \in 1..Len(out.rows) : out.rows[i].rhs.t \in {"some", "none"}
CanBeAbsent ==
    /\ input.rhs # NoSide /\ ~input.rhs.lit
    /\ kind = "language" /\ input.rhs.key \notin {"Iso639_3", "Name"}

C2_AsClaimed ==
    (Expanded("match") /\ input.rhs # NoSide /\ out.rows # <<>>) =>
        /\ out.fallback <=> CanBeAbsent
        /\ out.fallback => OptionalArms

(***************************************************************************)
(* C2 amended: the `_ => None` arm is appended exactly when the left side  *)
(* of the request is a literal; the arms return an optional outcome        *)
(* exactly when the right side is an identifier and the request is a       *)
(* language one or has a literal left side.                                *)
(***************************************************************************)
C2_Fallback ==
    Expanded("match") =>
        /\ out.fallback <=> input.lhs.lit
        /\ out.rows # <<>> =>
             (OptionalArms <=>
                 /\ input.rhs # NoSide /\ ~input.rhs.lit
                 /\ kind = "language" \/ input.lhs.lit)

\* a country parse match: Some arms and a fallback, on keys no record lacks
C2_Witness ==
    /\ Expanded("match") /\ kind = "country"
    /\ input.lhs.lit /\ input.rhs # NoSide /\ ~input.rhs.lit
    /\ out.fallback /\ out.rows # <<>> /\ OptionalArms

\* a language conversion: optional arms and no fallback
C2_WitnessNoFallback ==
    /\ Expanded("match") /\ kind = "language" /\ IdentToIdent
    /\ input.rhs.key = "Iso639_2b"
    /\ ~out.fallback /\ out.rows # <<>> /\ OptionalArms

(***************************************************************************)
(* C3: a country identifier-to-identifier match has exactly one arm per    *)
(* record, from the left variant straight to the right variant: no Some,   *)
(* no None, no fallback. At run time every variant converts to a variant   *)
(* and has a number; no `no value` branch is taken.                        *)
(***************************************************************************)
C3_Arms ==
    (Expanded("match") /\ kind = "country" /\ IdentToIdent) =>
        /\ ~out.fallback
        /\ out.rows = rows
        /\ Len(rows) = Len(Records)
        /\ \A i \in 1..Len(rows) :
             rows[i] = Row(VariantOf(Records[i], input.lhs.key),
                           VariantOf(Records[i], input.rhs.key))

C3_Defined ==
    (pc = "run" /\ kind = "country") =>
        \A j \in 1..Len(hist) :
            /\ hist[j].op = "from" =>
                 /\ hist[j].val.t = "path"
                 /\ hist[j].val.e = CountryKeyPath(hist[j].to)
            /\ hist[j].op = "numeric" => hist[j].val.t = "u16"

\* C3: an identifier to identifier country request gives plain arms and a
\* conversion defined on every variant
C3_CountryTotal == C3_Arms /\ C3_Defined

\* two records, two plain arms
C3_Witness ==
    /\ Expanded("match") /\ kind = "country" /\ IdentToIdent
    /\ input.lhs.key = "Alpha2" /\ input.rhs.key = "Alpha3"
    /\ Len(rows) = 2 /\ rows[1] # rows[2]
    /\ \A i \in 1..2 : rows[i].rhs.t = "path"

C3_WitnessRun ==
    /\ pc = "run" /\ kind = "country" /\ Len(hist) = 2
    /\ hist[2].op = "from" /\ hist[2].val.t = "path"

(***************************************************************************)
(* C4 as claimed: for every country record, alpha-2 to alpha-3 and back    *)
(* gives the original variant, and so does taking the numeric code of the  *)
(* alpha-2 variant and converting that number back.                        *)
(***************************************************************************)
RoundTrip(first, second, to) ==
    /\ pc = "run" /\ kind = "country" /\ Len(hist) = 3
    /\ hist[1].val.t = "path" /\ hist[1].val.e = "Iso3166_1_alpha_2"
    /\ hist[2].op = first /\ hist[3].op = second /\ hist[3].to = to

C4_AsClaimed ==
    /\ RoundTrip("from", "from", "Alpha2") => hist[3].val = hist[1].val
    /\ RoundTrip("numeric", "try_from_u16", "Alpha2") => hist[3].val = Ok(hist[1].val)

(***************************************************************************)
(* C4 amended: alpha-2 to alpha-3 and back gives the original variant; the *)
(* numeric code converted back gives the variant of the first record, in   *)
(* dataset order, whose numeric code has that value: the original variant  *)
(* exactly when no earlier record carries the same number.                 *)
(***************************************************************************)
Number(r) == ParseU16(r.country_code)
FirstWithNumber(n) ==
    CHOOSE i \in 1..Len(Records) :
        Number(Records[i]) = n /\ \A j \in 1..(i - 1) : Number(Records[j]) # n
RecordOf(variant) ==
    CHOOSE i \in 1..Len(Records) : VariantOf(Records[i], "Alpha2") = variant

C4_RoundTrip ==
    /\ RoundTrip("from", "from", "Alpha2") => hist[3].val = hist[1].val
    /\ RoundTrip("numeric", "try_from_u16", "Alpha2") =>
         /\ hist[2].val = U16(Number(Records[RecordOf(hist[1].val)]))
         /\ hist[3].val = Ok(VariantOf(Records[FirstWithNumber(hist[2].val.v[1])], "Alpha2"))
         /\ hist[3].val = Ok(hist[1].val) <=>
                \A j \in 1..(RecordOf(hist[1].val) - 1) :
                    Number(Records[j]) # Number(Records[RecordOf(hist[1].val)])

\* the second of two records goes to its number and back
C4_Witness ==
    /\ RoundTrip("numeric", "try_from_u16", "Alpha2")
    /\ Len(Records) = 2 /\ RecordOf(hist[1].val) = 2
    /\ hist[3].val = Ok(hist[1].val)

C4_WitnessAlpha ==
    /\ RoundTrip("from", "from", "Alpha2")
    /\ Len(Records) = 2 /\ RecordOf(hist[1].val) = 2
    /\ hist[2].val.e = "Iso3166_1_alpha_3"

(***************************************************************************)
(* C5: for every variant V of every generated enumeration, parsing the     *)
(* string V.code() returns gives Ok(V).                                    *)
(***************************************************************************)
ParseOfCode ==
    /\ pc = "run" /\ Len(hist) = 3
    /\ hist[1].val.t = "path"
    /\ hist[2].op = "code"
    /\ hist[3].op = "from_str" /\ hist[3].to = EnumKey(kind, hist[1].val.e)

C5_ParseFormat == ParseOfCode => hist[3].val = Ok(hist[1].val)

\* a variant whose name differs from its code, in either module
C5_Witness ==
    /\ ParseOfCode /\ kind = "language" /\ Len(Records) = 2
    /\ hist[1].val.e = "Iso639_2b"
    /\ hist[2].val.v # hist[1].val.v
    /\ hist[3].val.t = "ok"

C5_WitnessCountry == ParseOfCode /\ kind = "country" /\ hist[1].val.e = "Iso3166_1_alpha_3"

(***************************************************************************)
(* C6: parsing a string, or for countries a u16, that is not the raw code  *)
(* of any record under the key of the enumeration returns no variant but   *)
(* the invalid-code error that carries the input.                          *)
(***************************************************************************)
C6_InvalidCode ==
    pc = "run" =>
        \A j \in 2..Len(hist) :
            /\ ( /\ hist[j].op = "from_str"
                 /\ \A i \in 1..Len(Records) :
                       Held(Records[i], hist[j].to) =>
                           Field(Records[i], hist[j].to) # hist[j - 1].val.v )
               => hist[j].val = Err(InvalidCode(kind), hist[j - 1].val.v)
            /\ ( /\ hist[j].op = "try_from_u16"
                 /\ \A i \in 1..Len(Records) :
                       Number(Records[i]) # hist[j - 1].val.v[1] )
               => /\ hist[j].val.t = "err" /\ hist[j].val.e = "InvalidCountryCode"
                  /\ ParseU16(hist[j].val.v) = hist[j - 1].val.v[1]
                  /\ hist[j].val.v[1] \in 49..57 \/ hist[j].val.v = <<48>>

\* "Us" is the name of a variant but not a code
C6_Witness ==
    /\ pc = "run" /\ kind = "country" /\ Len(hist) = 2
    /\ hist[1].val = Str(<<85, 115>>)
    /\ \E i \in 1..Len(Records) : Records[i].alpha_2 = <<85, 83>>
    /\ hist[2] = Call("from_str", "Alpha2", Err("InvalidCountryCode", <<85, 115>>))

C6_WitnessNumber ==
    /\ pc = "run" /\ Len(hist) = 2
    /\ hist[1].val = U16(841)
    /\ hist[2].op = "try_from_u16" /\ hist[2].val = Err("InvalidCountryCode", <<56, 52, 49>>)

(***************************************************************************)
(* C7: the variant generated from a record returns that record's name from *)
(* name(), its raw code under the key of the enumeration from code() and,  *)
(* for countries, its numeric code as an integer from numeric().           *)
(***************************************************************************)
C7_Accessors ==
    pc = "run" =>
        \A j \in 2..Len(hist) :
            hist[j].op \in {"name", "code", "numeric"} =>
                \A i \in 1..Len(Records) :
                    LET r == Records[i]
                        K == EnumKey(kind, hist[j - 1].val.e)
                    IN  (Held(r, K) /\ VariantOf(r, K) = hist[j - 1].val) =>
                            /\ hist[j].op = "name" => hist[j].val = Str(Field(r, "Name"))
                            /\ hist[j].op = "code" => hist[j].val = Str(Field(r, K))
                            /\ hist[j].op = "numeric" => hist[j].val = U16(Number(r))

\* Us: numeric() is 840
C7_Witness ==
    /\ pc = "run" /\ kind = "country" /\ Len(hist) = 2
    /\ hist[1].val = Path("Iso3166_1_alpha_2", <<85, 115>>)
    /\ hist[2] = Call("numeric", "", U16(840))

C7_WitnessCode ==
    /\ pc = "run" /\ kind = "country" /\ Len(hist) = 2
    /\ hist[1].val = Path("Iso3166_1_alpha_2", <<85, 115>>)
    /\ hist[2] = Call("code", "", Str(<<85, 83>>))

C7_WitnessLanguage ==
    /\ pc = "run" /\ kind = "language" /\ Len(hist) = 2
    /\ hist[1].val = Path("Iso639_2b", <<70, 114, 101>>)
    /\ hist[2] = Call("name", "", Str(<<70, 114>>))

(***************************************************************************)
(* C8 as claimed: for every dataset, the variants of an enumeration on key *)
(* K are in one-to-one correspondence with the distinct non-empty values   *)
(* of K: no value yields two variants, no two values yield the same        *)
(* variant, no variant comes from an empty value.                          *)
(***************************************************************************)
EnumRequest == Expanded("enum") /\ ~input.lhs.lit /\ input.rhs = NoSide
ValuesOf(key) == {Field(Records[i], key) : i \in {j \in 1..Len(Records) : Held(Records[j], key)}}
OneToOne ==
    /\ Len(rows) = Cardinality(ValuesOf(input.lhs.key) \ {<<>>})
    /\ \A i, j \in 1..Len(rows) : rows[i] = rows[j] => i = j
    /\ \A i \in 1..Len(rows) :
         \E v \in ValuesOf(input.lhs.key) \ {<<>>} : rows[i].lhs.v = ascii_formatter(v)

C8_AsClaimed == EnumRequest => OneToOne

(***************************************************************************)
(* C8 amended: the enumeration has one variant per record that holds K, in *)
(* dataset order, each the normalization of that record's value, none from *)
(* an empty value; the variants correspond one-to-one to the distinct      *)
(* values exactly when the normalized values of the records are pairwise   *)
(* distinct.                                                               *)
(***************************************************************************)
C8_VariantPerRecord ==
    EnumRequest =>
        LET hs == Holders(input.lhs.key)
        IN  /\ out.rows = rows
            /\ Len(rows) = Len(hs)
            /\ \A i \in 1..Len(hs) :
                 /\ Field(hs[i], input.lhs.key) # <<>>
                 /\ rows[i] = Row(Bare(ascii_formatter(Field(hs[i], input.lhs.key))), Absent)
            /\ OneToOne <=>
                 \A i, j \in 1..Len(hs) :
                     ascii_formatter(Field(hs[i], input.lhs.key))
                       = ascii_formatter(Field(hs[j], input.lhs.key)) => i = j

\* two records, two distinct variants, in dataset order
C8_Witness ==
    /\ EnumRequest /\ Len(Records) = 2 /\ Len(rows) = 2
    /\ rows[1] # rows[2]

\* two values that differ only in case give the same variant twice
C8_WitnessCollision ==
    /\ EnumRequest /\ Len(rows) = 2 /\ rows[1] = rows[2]
    /\ Field(Records[1], input.lhs.key) # Field(Records[2], input.lhs.key)

(***************************************************************************)
(* C9: in a language request with left key K, a record contributes a row   *)
(* exactly when it holds a value under K: a record that lacks K gives no   *)
(* variant and no arm, and the rows of the others keep dataset order.      *)
(* (The rows are those pushed when the macro ends; a run that a record     *)
(* holding K ends by a panic has pushed the rows of the holders before it.)*)
(***************************************************************************)
C9_SkipRule ==
    (pc = "expanded" /\ kind = "language") =>
        LET hs == Holders(input.lhs.key)
        IN  /\ Len(rows) <= Len(hs)
            /\ \A i \in 1..Len(rows) :
                 rows[i].lhs.v = IF input.lhs.lit THEN hs[i][input.lhs.key]
                                 ELSE ascii_formatter(hs[i][input.lhs.key])
            /\ out.form # "panic" => Len(rows) = Len(hs)
            /\ Len(rows) < Len(hs) =>
                 LanguageRow(hs[Len(rows) + 1], input.lhs, input.rhs).panic # ""

\* a record without a 2B code, then one with: one row, from the second
C9_Witness ==
    /\ pc = "expanded" /\ kind = "language" /\ out.form \in {"enum", "match"}
    /\ input.lhs.key = "Iso639_2b"
    /\ Len(Records) = 2 /\ ~Held(Records[1], "Iso639_2b")
    /\ Len(rows) = 1

(***************************************************************************)
(* C10 as claimed: an enumeration request on a key without a standard      *)
(* designation (Name, or Numeric as a bare identifier) ends in the `no     *)
(* corresponding standard` diagnostic for every dataset, and a request on  *)
(* a key with a designation produces a declaration.                        *)
(***************************************************************************)
StandardCode == 
    IF kind = "country" THEN CountryStandardCode(input.lhs.key)
    ELSE LanguageStandardCode(input.lhs.key)
NoStandard == IF kind = "country" THEN NoStandardCountry ELSE NoStandardLanguage
Undesignated ==
    \/ input.lhs.key = "Name"
    \/ kind = "country" /\ input.lhs.key = "Numeric" /\ ~input.lhs.lit
EnumerationRequested == pc = "expanded" /\ input.enumeration # "" /\ input.rhs = NoSide

C10_AsClaimed ==
    EnumerationRequested =>
        /\ Undesignated => out = CompileError(NoStandard)
        /\ ~Undesignated => out.form = "enum"

(***************************************************************************)
(* C10 amended: an enumeration request on Name, the one key without a      *)
(* standard designation, never produces a declaration: it ends in the `no  *)
(* corresponding standard` diagnostic when the row loop completes and in a *)
(* panic otherwise, which for a country dataset is whenever the dataset    *)
(* has a record. Numeric has a designation: as a bare identifier it panics *)
(* on the first record and declares an empty enumeration on an empty       *)
(* dataset. A request on a key with a designation produces a declaration   *)
(* whenever the loader and the row loop complete.                          *)
(***************************************************************************)
C10_NoStandard ==
    EnumerationRequested =>
        /\ input.lhs.key = "Name" =>
             /\ out.form \in {"panic", "compile_error"}
             /\ out.form = "compile_error" => out = CompileError(NoStandard)
             /\ (kind = "country" /\ Records # <<>>) => out.form = "panic"
        /\ input.lhs.key # "Name" =>
             /\ out.form \in {"panic", "enum"}
             /\ out.form = "enum" =>
                  out = EnumDecl(input.enumeration, StandardCode, rows)
        /\ (kind = "country" /\ input.lhs.key = "Numeric" /\ file.status = "ok") =>
             (out.form = "enum" <=> Records = <<>>)

\* a language enumeration on Name whose names are identifiers: the diagnostic
C10_Witness ==
    /\ EnumerationRequested /\ input.lhs.key = "Name" /\ Len(rows) = 2
    /\ out = CompileError(NoStandard)

\* a country enumeration on Name: a panic
C10_WitnessPanic ==
    /\ EnumerationRequested /\ kind = "country" /\ input.lhs.key = "Name"
    /\ Len(Records) = 2 /\ out.form = "panic"

\* a declaration
C10_WitnessDeclared ==
    /\ EnumerationRequested /\ input.lhs.key \in {"Alpha2", "Iso639_1"}
    /\ out.form = "enum" /\ Len(out.rows) = 2

(***************************************************************************)
(* C11 as claimed, on tables whose lines are all read and have seven       *)
(* columns or more: the loader skips the first line and builds one record  *)
(* per later line, in order; Iso639_3 is column 0 and Name column 6, and   *)
(* Iso639_2b, Iso639_2t and Iso639_1 are present exactly when columns 1, 2 *)
(* and 3 have 3, 3 and 2 characters.                                       *)
(***************************************************************************)
Loaded == pc = "expanded" /\ kind = "language" /\ file.status = "ok"
DataLines == IF file.lines = <<>> THEN <<>> ELSE Tail(file.lines)
LinesRead == SelectSeq(DataLines, LAMBDA l : l.io = "ok")
RecordOfLine(r, cols, measure(_)) ==
    /\ DOMAIN r = {"Iso639_3", "Name"}
                  \cup (IF measure(cols[2]) = 3 THEN {"Iso639_2b"} ELSE {})
                  \cup (IF measure(cols[3]) = 3 THEN {"Iso639_2t"} ELSE {})
                  \cup (IF measure(cols[4]) = 2 THEN {"Iso639_1"} ELSE {})
    /\ r["Iso639_3"] = cols[1]
    /\ r["Name"] = cols[7]
    /\ "Iso639_2b" \in DOMAIN r => r["Iso639_2b"] = cols[2]
    /\ "Iso639_2t" \in DOMAIN r => r["Iso639_2t"] = cols[3]
    /\ "Iso639_1" \in DOMAIN r => r["Iso639_1"] = cols[4]

C11_AsClaimed ==
    (Loaded /\ \A i \in 1..Len(DataLines) :
                  DataLines[i].io = "ok" /\ Len(DataLines[i].cols) >= 7) =>
        /\ Len(Records) = Len(DataLines)
        /\ \A i \in 1..Len(DataLines) :
              RecordOfLine(Records[i], DataLines[i].cols, Chars)

(***************************************************************************)
(* C11 amended: the loader skips the first line and drops every later line *)
(* whose read fails; when a line that was read has fewer than seven        *)
(* columns the loader panics; otherwise it builds one record per line      *)
(* read, in order, with Iso639_3 column 0 and Name column 6, and with      *)
(* Iso639_2b, Iso639_2t and Iso639_1 present exactly when columns 1, 2 and *)
(* 3 are 3, 3 and 2 bytes long. Nothing else of a line enters its record.  *)
(***************************************************************************)
C11_Loader ==
    Loaded =>
        IF \E i \in 1..Len(LinesRead) : Len(LinesRead[i].cols) < 7
        THEN out = Panicked(IndexPanic) /\ rows = <<>>
        ELSE /\ Len(Records) = Len(LinesRead)
             /\ \A i \in 1..Len(LinesRead) :
                   RecordOfLine(Records[i], LinesRead[i].cols, Len)
             /\ out # Panicked(IndexPanic) \/ input # NoInput

\* two lines: an eighth column in the first, a three-byte, two-character
\* column 1 in the second
C11_Witness ==
    /\ Loaded /\ Len(DataLines) = 2 /\ Len(Records) = 2
    /\ Len(DataLines[1].cols) = 8
    /\ Records[2]["Iso639_2b"] = <<195, 169, 65>>
    /\ "Iso639_1" \notin DOMAIN Records[2]

(***************************************************************************)
(* C12: every failure of a dataset loader is fatal. When the file does not *)
(* open, the JSON is malformed, a line cannot be read or a language line   *)
(* that was read has fewer than seven columns, the macro emits no          *)
(* enumeration and no match, and the records the row loop sees never lack  *)
(* a line that failed.                                                     *)
(***************************************************************************)
LoaderFailure ==
    \/ file.status # "ok"
    \/ /\ kind = "language"
       /\ \E i \in 1..Len(DataLines) :
             DataLines[i].io # "ok" \/ Len(DataLines[i].cols) < 7

C12_LoaderFailuresFatal ==
    (pc = "expanded" /\ LoaderFailure) =>
        /\ out.form \notin {"enum", "match"}
        /\ Records = <<>>

(***************************************************************************)
(* C13: the parser accepts exactly the grammar                             *)
(*     request := "enum" IDENT ":" side                                    *)
(*              | "match" subject ":" side ("=>" side)?                    *)
(* with subject := "&" "self" | IDENT and side := IDENT | STRING. A token  *)
(* sequence the grammar does not derive produces no enumeration and no     *)
(* match (the claim adds that it is rejected as a parse error).            *)
(***************************************************************************)
IsSide(ts, i) == Peek(ts, i) \in {"ident", "lit"}
Derivable(ts) ==
    \/ /\ Len(ts) = 4
       /\ Peek(ts, 1) = "enum" /\ Peek(ts, 2) = "ident" /\ Peek(ts, 3) = ":"
       /\ IsSide(ts, 4)
    \/ /\ Peek(ts, 1) = "match"
       /\ \E h \in {3, 4} :
             /\ \/ h = 3 /\ Peek(ts, 2) = "ident"
                \/ h = 4 /\ Peek(ts, 2) = "&" /\ Peek(ts, 3) = "self"
             /\ Peek(ts, h) = ":"
             /\ IsSide(ts, h + 1)
             /\ \/ Len(ts) = h + 1
                \/ Len(ts) = h + 3 /\ Peek(ts, h + 2) = "=>" /\ IsSide(ts, h + 3)

C13_GrammarOnly ==
    (pc = "expanded" /\ ~Derivable(tokens)) => out.form \notin {"enum", "match"}

(***************************************************************************)
(* C14: a key name is looked up ignoring letter case in the closed set of  *)
(* canonical names. When the dataset is loaded and the tokens before a     *)
(* side are in order, a side whose name equals a canonical name ignoring   *)
(* case becomes that key, and any other name ends the macro in the panic   *)
(* of the failed lookup, which is not the compile_error! of a parse error. *)
(***************************************************************************)
SameLetter(a, b) ==
    \/ a = b
    \/ a \in 65..90 /\ b = a + 32
    \/ a \in 97..122 /\ b = a - 32
EqualIgnoringCase(s, t) ==
    Len(s) = Len(t) /\ \A i \in 1..Len(s) : SameLetter(s[i], t[i])
Named(sp) == {key \in Keys(kind) : EqualIgnoringCase(sp, Canonical(kind, key))}

\* the dataset loads
LoaderOk ==
    /\ file.status = "ok"
    /\ kind = "language" => \A i \in 1..Len(LinesRead) : Len(LinesRead[i].cols) >= 7
\* the position of the left side when the tokens before it are in order, else 0
LeftAt(ts) ==
    CASE Peek(ts, 1) = "enum" ->
           IF Peek(ts, 2) = "ident" /\ Peek(ts, 3) = ":" THEN 4 ELSE 0
      [] Peek(ts, 1) = "match" /\ Peek(ts, 2) = "&" ->
           IF Peek(ts, 3) = "self" /\ Peek(ts, 4) = ":" THEN 5 ELSE 0
      [] Peek(ts, 1) = "match" /\ Peek(ts, 2) = "ident" ->
           IF Peek(ts, 3) = ":" THEN 4 ELSE 0
      [] Peek(ts, 1) = "match" -> IF Peek(ts, 2) = ":" THEN 3 ELSE 0
      [] OTHER -> 1
HasRight(ts) == Peek(ts, LeftAt(ts) + 1) = "=>" /\ IsSide(ts, LeftAt(ts) + 2)
KeyLookupFailed == out = Panicked(NoMatchingVariant)

C14_WitnessFailed ==
    /\ pc = "expanded" /\ LoaderOk /\ Len(tokens) = 4
    /\ tokens[4] = IdentTok("", <<110, 97, 109, 101, 115>>)
    /\ KeyLookupFailed

(***************************************************************************)
(* C15: normalization gives, for every string, the string of the same      *)
(* length with its first character ASCII-uppercased and every later        *)
(* character ASCII-lowercased, non-ASCII bytes unchanged, also when the    *)
(* first character is not ASCII; normalizing twice is normalizing once.    *)
(* Stated of the names the macros make from the values of a dataset.       *)
(***************************************************************************)
TitlePolicy(s) == [i \in 1..Len(s) |-> IF i = 1 THEN Upper(s[i]) ELSE Lower(s[i])]

C15_TitlePolicy ==
    (pc = "expanded" /\ input # NoInput /\ ~input.lhs.lit) =>
        \A i \in 1..Len(rows) :
            /\ rows[i].lhs.v = TitlePolicy(Field(Holders(input.lhs.key)[i], input.lhs.key))
            /\ ascii_formatter(rows[i].lhs.v) = rows[i].lhs.v

(***************************************************************************)
(* C17: a language match request whose right side is a literal key         *)
(* completes for every right key, and every record holding the left key    *)
(* contributes exactly one arm, in order, also when some of those records  *)
(* lack the right key. The left side is one the macro can write: a literal,*)
(* or an identifier of a key with a path whose values normalize to         *)
(* identifiers.                                                            *)
(***************************************************************************)
LiteralRight == input.match_against # "" /\ input.rhs # NoSide /\ input.rhs.lit
LeftWritable ==
    \/ input.lhs.lit
    \/ /\ LanguageKeyPath(input.lhs.key) # ""
       /\ \A i \in 1..Len(Holders(input.lhs.key)) :
            IsValidIdent(ascii_formatter(Holders(input.lhs.key)[i][input.lhs.key]))
LeftOf(r) ==
    IF input.lhs.lit THEN Str(Field(r, input.lhs.key))
    ELSE VariantOf(r, input.lhs.key)

\* C17: a literal-right language match request is total
C17_LiteralRightTotal ==
    (pc = "expanded" /\ kind = "language" /\ LoaderOk /\ LiteralRight /\ LeftWritable) =>
        LET hs == Holders(input.lhs.key)
        IN  /\ out.form = "match"
            /\ out.rows = rows
            /\ Len(rows) = Len(hs)
            /\ \A i \in 1..Len(hs) :
                 /\ rows[i].lhs = LeftOf(hs[i])
                 /\ Held(hs[i], input.rhs.key) =>
                        rows[i].rhs = Str(Field(hs[i], input.rhs.key))

(***************************************************************************)
(* C18 as claimed: a country request that references Numeric in a literal  *)
(* position emits, for each record, the integer equal to the decimal text  *)
(* when it lies in 0..65535, and aborts otherwise. The request is a match  *)
(* whose other side, if any, is one the macro can write.                   *)
(***************************************************************************)
\* a decimal text, and the integer it denotes
Digits(s) == IF Len(s) >= 1 /\ s[1] = 43 THEN Tail(s) ELSE s
DecimalText(s) == Digits(s) # <<>> /\ \A i \in 1..Len(Digits(s)) : Digits(s)[i] \in 48..57
FitsU16(s) == DecimalText(s) /\ DecimalValue(Digits(s)) \in 0..65535
NumericLiteral(side) == side # NoSide /\ side.lit /\ side.key = "Numeric"
ReferencesNumericLiteral == NumericLiteral(input.lhs) \/ NumericLiteral(input.rhs)
Writable(side) ==
    \/ side = NoSide
    \/ side.lit
    \/ /\ side.key \in {"Alpha2", "Alpha3"}
       /\ \A i \in 1..Len(Records) : IsValidIdent(ascii_formatter(Field(Records[i], side.key)))
NumericRequest ==
    /\ pc = "expanded" /\ kind = "country" /\ file.status = "ok"
    /\ input.match_against # ""
    /\ ReferencesNumericLiteral
    /\ Writable(input.lhs) /\ Writable(input.rhs)
NumericEmitted ==
    IF \A i \in 1..Len(Records) : FitsU16(Records[i].country_code)
    THEN /\ out.form = "match"
         /\ out.rows = rows
         /\ Len(rows) = Len(Records)
         /\ \A i \in 1..Len(Records) :
              LET n == DecimalValue(Digits(Records[i].country_code))
              IN  /\ NumericLiteral(input.lhs) => rows[i].lhs = U16(n)
                  /\ NumericLiteral(input.rhs) => rows[i].rhs = U16(n)
    ELSE out.form = "panic" /\ out.rows = <<>>

\* C18 as claimed: every request with Numeric in a literal position emits the
\* parsed integers or aborts on a text outside 0..65535
C18_AsClaimed == NumericRequest => NumericEmitted

(***************************************************************************)
(* C18 amended: the parsed integers are emitted by the requests with two   *)
(* sides; a request that names Numeric alone as a literal aborts on the    *)
(* first record whatever its text; a request that does not reference       *)
(* Numeric has the outcome it has on the dataset with every numeric-code   *)
(* text replaced.                                                          *)
(***************************************************************************)
Renumbered(f) ==
    [f EXCEPT !.records = [i \in 1..Len(f.records) |->
                              [f.records[i] EXCEPT !.country_code = <<120>>]]]
ReferencesNumeric == input.lhs.key = "Numeric" \/ input.rhs.key = "Numeric"

\* C18: the numeric-code text is parsed on demand, by the two-sided requests
C18_NumericOnDemand ==
    /\ (NumericRequest /\ input.rhs # NoSide) => NumericEmitted
    /\ (NumericRequest /\ input.rhs = NoSide /\ Records # <<>>) =>
           out = Panicked("numeric identifiers cannot be used alone")
    /\ (pc = "expanded" /\ kind = "country" /\ input # NoInput /\ ~ReferencesNumeric) =>
           LET m == CountryExpand(Renumbered(file), input)
           IN  out = m.out /\ rows = m.rows

\* a completed request with the numbers 840 and 250 on its right side
C18_Witness ==
    /\ NumericRequest /\ NumericLiteral(input.rhs) /\ out.form = "match"
    /\ Len(rows) = 2
    /\ rows[1].rhs = U16(840) /\ rows[2].rhs = U16(250)

\* a request aborted by the text 65536
C18_WitnessAbort ==
    /\ NumericRequest /\ input.rhs # NoSide /\ out.form = "panic"
    /\ \E i \in 1..Len(Records) : Records[i].country_code = <<54, 53, 53, 51, 54>>

\* a request without Numeric completed on a dataset holding the text -1
C18_WitnessUnreferenced ==
    /\ pc = "expanded" /\ kind = "country" /\ input # NoInput /\ ~ReferencesNumeric
    /\ out.form = "enum"
    /\ \E i \in 1..Len(Records) : Records[i].country_code = <<45, 49>>

(***************************************************************************)
(* C19: whenever a match request whose left side is an identifier on a key *)
(* K with a path completes, the enumeration request on K completes on the  *)
(* same dataset, and the left-hand variants of the arms are the variants   *)
(* of the enumeration: same names, same order, same length. So in the      *)
(* built module every match on an enumeration's variants has one arm per   *)
(* declared variant, in the order of the declaration.                      *)
(***************************************************************************)
IdentifierLeftMatch ==
    /\ pc = "expanded" /\ out.form = "match"
    /\ ~input.lhs.lit /\ KeyPath(kind, input.lhs.key) # ""
EnumerationOn(key) == Expand(kind, file, EnumInput("E", key))
C19_Expansion ==
    IdentifierLeftMatch =>
        LET e == EnumerationOn(input.lhs.key)
        IN  /\ e.out.form = "enum"
            /\ Len(out.rows) = Len(e.out.rows)
            /\ \A i \in 1..Len(out.rows) :
                 /\ out.rows[i].lhs.v = e.out.rows[i].lhs.v
                 /\ e.out.rows[i].lhs.t = "ident"
                 /\ input.rhs # NoSide =>
                        out.rows[i].lhs = Path(KeyPath(kind, input.lhs.key),
                                               e.out.rows[i].lhs.v)
C19_Module ==
    crate # NoCrate =>
        \A id \in Invocations(kind) :
            (/\ ~Inputs(kind)[id].lhs.lit
             /\ Inputs(kind)[id].match_against # ""
             /\ crate[id].form = "match") =>
                /\ crate[<<"enum", id[2], "">>].form = "enum"
                /\ ~crate[id].fallback
                /\ [i \in 1..Len(crate[id].rows) |-> crate[id].rows[i].lhs]
                       = Variants(kind, crate, id[2])

\* C19: the arms of an identifier-left match are the variants of the
\* enumeration on the same key
C19_Exhaustive == C19_Expansion /\ C19_Module

\* a language match of one arm on a dataset with a record that lacks the key
C19_Witness ==
    /\ IdentifierLeftMatch /\ kind = "language" /\ input.rhs # NoSide
    /\ Len(out.rows) = 1 /\ Len(Records) = 2

\* a built country module whose name() match has two arms
C19_WitnessModule ==
    /\ crate # NoCrate /\ kind = "country"
    /\ crate[<<"name", "Alpha2", "">>].form = "match"
    /\ Len(crate[<<"name", "Alpha2", "">>].rows) = 2


====
